---- MODULE Spec2Model ----
(***************************************************************************)
(* A model of classes/OEMNotifications.py: the OEMNotification class (its  *)
(* constructor, get_event_details, apply_rules, send_notification) and the *)
(* __main__ block that drives it.                                          *)
(*                                                                         *)
(* Text that the code lower-cases or parses with int() is a sequence of    *)
(* one-character strings, so that str.lower() and int() are computed, not  *)
(* assumed.  E-mail addresses are only compared and joined, and are plain  *)
(* strings.  A Python dict is a function whose DOMAIN is the set of keys   *)
(* present.                                                                *)
(*                                                                         *)
(* PyYAML is taken to be importable (CONFIG_MODE = "yaml", lines 37-39).    *)
(* Not modelled: the debug section and logging.basicConfig (lines 70-73,   *)
(* 78-80, 85-96), the INI loader (lines 113-155, Python 2 only) and the    *)
(* subject/body formatting (lines 222-237); none of them feeds the rule    *)
(* evaluation, the priority headers or the control flow modelled here.     *)
(***************************************************************************)
EXTENDS Integers, Sequences, FiniteSets, TLC

\* ------------------------------------------------------------------ bounds

\* Longest rule list a configuration file holds.
MaxRules == 2

\* ------------------------------------------------------------------ text

UpperChars == <<"A","B","C","D","E","F","G","H","I","J","K","L","M",
                "N","O","P","Q","R","S","T","U","V","W","X","Y","Z">>
LowerChars == <<"a","b","c","d","e","f","g","h","i","j","k","l","m",
                "n","o","p","q","r","s","t","u","v","w","x","y","z">>

\* Each upper-case letter's lower-case letter.
LowerTable ==
    [c \in {UpperChars[i] : i \in DOMAIN UpperChars} |->
        LowerChars[CHOOSE i \in DOMAIN UpperChars : UpperChars[i] = c]]

\* str.lower() on one character.
LowerChar(c) == IF c \in DOMAIN LowerTable THEN LowerTable[c] ELSE c

\* str.lower().
lower(s) == [i \in DOMAIN s |-> LowerChar(s[i])]

Digits == <<"0","1","2","3","4","5","6","7","8","9">>

IsDigit(c) == \E i \in DOMAIN Digits : Digits[i] = c

DigitVal(c) == (CHOOSE i \in DOMAIN Digits : Digits[i] = c) - 1

RECURSIVE DigitsVal(_)
DigitsVal(s) ==
    IF Len(s) = 0 THEN 0
    ELSE 10 * DigitsVal(SubSeq(s, 1, Len(s) - 1)) + DigitVal(s[Len(s)])

AllDigits(s) == Len(s) > 0 /\ \A i \in DOMAIN s : IsDigit(s[i])

\* Whether int(s) succeeds: an optional sign and at least one decimal digit
\* (surrounding blanks and "_" separators are outside the alphabet used).
IntParses(s) ==
    /\ Len(s) > 0
    /\ IF s[1] \in {"+", "-"} THEN AllDigits(Tail(s)) ELSE AllDigits(s)

\* int(s), for a text on which it succeeds.
IntOf(s) ==
    IF s[1] = "-" THEN 0 - DigitsVal(Tail(s))
    ELSE IF s[1] = "+" THEN DigitsVal(Tail(s))
    ELSE DigitsVal(s)

\* dict.get(key, default).
Get(d, k, default) == IF k \in DOMAIN d THEN d[k] ELSE default

EmptyDict == [k \in {} |-> <<>>]

\* Python's None (no address or text is spelt this way).
None == "<None>"

ToSet(seq) == {seq[i] : i \in DOMAIN seq}

\* ------------------------------------------------------------------ texts

sEmpty == <<>>
sAll == <<"a","l","l">>
sALL == <<"A","L","L">>
sDb == <<"D","b">>
sDB == <<"D","B">>
sHost == <<"h","o","s","t">>
sHOST == <<"H","O","S","T">>
sProd == <<"P","r","o","d">>
sPROD == <<"P","R","O","D">>
sTest == <<"t","e","s","t">>
sFirstMatch == <<"f","i","r","s","t","_","m","a","t","c","h">>
sFirst_Match == <<"F","i","r","s","t","_","M","a","t","c","h">>
sAllMatches == <<"a","l","l","_","m","a","t","c","h","e","s">>
sUnknownTarget == <<"U","n","k","n","o","w","n"," ","T","a","r","g","e","t">>
sUnknownType == <<"U","n","k","n","o","w","n"," ","T","y","p","e">>
sUnknownStatus == <<"U","n","k","n","o","w","n"," ","S","t","a","t","u","s">>
p1 == <<"1">>
p01 == <<"0","1">>
p2 == <<"2">>
p3 == <<"3">>
p5 == <<"5">>
pHigh == <<"h","i","g","h">>
p25 == <<"2","5">>
pSmtp == <<"s","m","t","p">>

BaseAddr == "base@x.com"
AddrA == "a@x.com"
AddrB == "b@x.com"

\* ------------------------------------------------------------------ inputs

\* The rules a configuration file is built from.
RuleAll1 ==
    [condition |-> [target_name |-> sAll, target_type |-> sAll],
     action |-> [recipients |-> <<AddrA>>, priority |-> p1]]
RuleALL01 ==
    [condition |-> [target_name |-> sALL, target_type |-> sAll],
     action |-> [recipients |-> <<AddrB, AddrB>>, priority |-> p01]]
RuleDbProd ==
    [condition |-> [target_name |-> sDB, target_type |-> sHost,
                    lifecycle_status |-> sPROD],
     action |-> [recipients |-> <<AddrA, BaseAddr>>, priority |-> p2]]
RuleNoName ==
    [condition |-> [target_type |-> sAll],
     action |-> [recipients |-> <<AddrB>>, priority |-> p1]]
RuleNoType ==
    [condition |-> [target_name |-> sAll],
     action |-> [recipients |-> <<AddrA>>, priority |-> p2]]
RuleTest5 ==
    [condition |-> [target_name |-> sAll, target_type |-> sAll,
                    lifecycle_status |-> sTest],
     action |-> [recipients |-> <<AddrB>>, priority |-> p5]]
RuleBadPriority ==
    [condition |-> [target_name |-> sAll, target_type |-> sAll],
     action |-> [priority |-> pHigh]]
RuleNoPriority ==
    [condition |-> [target_name |-> sAll, target_type |-> sAll],
     action |-> [recipients |-> <<AddrB>>]]
RuleBare == EmptyDict

RuleCatalog ==
    {RuleAll1, RuleALL01, RuleDbProd, RuleNoName, RuleNoType, RuleTest5,
     RuleBadPriority, RuleNoPriority, RuleBare}

RuleLists == UNION {[1..n -> RuleCatalog] : n \in 0..MaxRules}

SmtpSections ==
    {[recipient |-> BaseAddr, port |-> p25],
     [recipient |-> BaseAddr, port |-> pSmtp],
     EmptyDict}

ModeSettings == {EmptyDict, [rules_evaluation |-> sFirst_Match]}

\* The top-level mappings a YAML source parses to.
ConfigContents ==
    {[smtp |-> s] @@ m @@ r :
        s \in SmtpSections, m \in ModeSettings,
        r \in {EmptyDict} \cup {[rules |-> l] : l \in RuleLists}}

\* The configuration source: absent, not a mapping at the top level, or a mapping.
ConfigFiles ==
    {[exists |-> FALSE, is_dict |-> FALSE, content |-> EmptyDict],
     [exists |-> TRUE, is_dict |-> FALSE, content |-> EmptyDict]}
    \cup {[exists |-> TRUE, is_dict |-> TRUE, content |-> c] : c \in ConfigContents}

\* os.environ, as far as the rule evaluation reads it.
Environments ==
    {n @@ t @@ l :
        n \in {EmptyDict, [TARGET_NAME |-> sDb], [TARGET_NAME |-> sEmpty]},
        t \in {EmptyDict, [TARGET_TYPE |-> sHOST]},
        l \in {EmptyDict, [LIFECYCLE_STATUS |-> sProd]}}

\* ------------------------------------------------------------------ state

VARIABLES
    pc,                \* position of the run
    entry,             \* "main": the __main__ block; "apply_rules": a direct call
    loggerBound,       \* whether the attribute lookup self.logger succeeds
    exc,               \* the exception in flight or caught last, "" for none
    configSource,      \* history: what load_yaml_config found, "unread" before
    config,            \* self.config
    smtp_recipient,    \* self.smtp_recipient
    smtp_port,         \* self.smtp_port
    rules_evaluation,  \* self.rules_evaluation
    target_name,       \* event fields passed to apply_rules
    target_type,
    lifecycle_status,
    idx,               \* apply_rules: 1-based position of the for loop
    recipients,        \* apply_rules: the local list
    priority,          \* apply_rules: the local priority text
    applied,           \* history: positions of the rules whose branch at line 195 was entered
    returned,          \* history: apply_rules reached its return statement
    msg,               \* the headers of the MIMEText message, empty before it is built
    sendAttempts,      \* history: entries into the try block of line 249
    sendFailed,        \* history: the transport raised inside the try block
    log,               \* records written through logging
    exitCode           \* process exit status, -1 while running

objVars == <<config, smtp_recipient, smtp_port, rules_evaluation>>
eventVars == <<target_name, target_type, lifecycle_status>>
loopVars == <<idx, recipients, priority, applied, returned>>
outVars == <<msg, sendAttempts, sendFailed, log, exitCode>>
vars == <<pc, entry, loggerBound, exc, configSource, objVars, eventVars, loopVars, outVars>>

\* self.logger is read at lines 82, 164, 204, 251, 253 and 255 and assigned
\* nowhere in the file: the lookup succeeds only when code outside the file has
\* put the attribute on the class (loggerBound = TRUE); the file as it stands,
\* run as a script, has loggerBound = FALSE.
Init ==
    /\ pc = "start"
    /\ entry = "none"
    /\ loggerBound \in BOOLEAN
    /\ exc = ""
    /\ configSource = "unread"
    /\ config = EmptyDict
    /\ smtp_recipient = None
    /\ smtp_port = 0
    /\ rules_evaluation = sEmpty
    /\ target_name = sEmpty
    /\ target_type = sEmpty
    /\ lifecycle_status = sEmpty
    /\ idx = 0
    /\ recipients = <<>>
    /\ priority = sEmpty
    /\ applied = <<>>
    /\ returned = FALSE
    /\ msg = EmptyDict
    /\ sendAttempts = 0
    /\ sendFailed = FALSE
    /\ log = {}
    /\ exitCode = -1

\* An exception leaves the method: the __main__ block catches it (line 263),
\* a direct caller receives it.
Raise(e) ==
    /\ exc' = e
    /\ pc' = IF entry = "main" THEN "main_except" ELSE "done"

\* ------------------------------------------------------------------ load_yaml_config

\* Mutant: the isinstance check of line 108 is missing.
Mut_load_yaml_config(file) ==
    IF ~file.exists THEN "FileNotFoundError" ELSE ""

\* load_yaml_config: the exception it raises, "" when it returns the mapping.
load_yaml_config(file) ==
    IF ~file.exists THEN "FileNotFoundError"
    ELSE IF ~file.is_dict THEN "ValueError"
    ELSE ""

\* ------------------------------------------------------------------ apply_rules

Rules == Get(config, "rules", <<>>)

\* Lines 191 and 192: the condition text, absent read as "", lower-cased, is
\* "all" or the lower-cased input.
MatchAllOrEqual(condition, key, input) ==
    lower(Get(condition, key, sEmpty)) \in {sAll, lower(input)}

\* Mutant: lifecycle_status is matched like the other two conditions.
Mut_MatchEmptyOrEqual(condition, key, input) ==
    lower(Get(condition, key, sEmpty)) \in {sAll, lower(input)}

\* Line 193: the condition text, absent read as "", lower-cased, is "" or the
\* lower-cased input.
MatchEmptyOrEqual(condition, key, input) ==
    lower(Get(condition, key, sEmpty)) \in {sEmpty, lower(input)}

\* Line 195.
RuleMatches(rule, tn, tt, ls) ==
    LET condition == Get(rule, "condition", EmptyDict)
    IN  /\ MatchAllOrEqual(condition, "target_name", tn)
        /\ MatchAllOrEqual(condition, "target_type", tt)
        /\ MatchEmptyOrEqual(condition, "lifecycle_status", ls)

\* Lines 197-199: extend, then set(): the addresses the list holds afterwards.
MergeRecipients(recs, action) ==
    ToSet(recs \o Get(action, "recipients", <<>>))

\* list(set(...)): the set in some order, each element once.
Orderings(S) ==
    {s \in [1..Cardinality(S) -> S] :
        \A i, j \in 1..Cardinality(S) : i # j => s[i] # s[j]}

\* Mutant: a priority that int() rejects is replaced by the running one.
Mut_PriorityCandidate(prio, action) ==
    IF IntParses(Get(action, "priority", prio)) THEN Get(action, "priority", prio)
    ELSE prio

\* Line 202: the second argument of min.
PriorityCandidate(prio, action) == Get(action, "priority", prio)

\* Line 202: int() is applied to both arguments.
MinRaises(prio, action) ==
    ~IntParses(prio) \/ ~IntParses(PriorityCandidate(prio, action))

\* Mutant: max instead of min.
Mut_MinPriority(prio, action) ==
    IF IntOf(PriorityCandidate(prio, action)) > IntOf(prio)
    THEN PriorityCandidate(prio, action)
    ELSE prio

\* Line 202: min(..., key=int) returns the first argument unless the second
\* is strictly smaller as an integer.
MinPriority(prio, action) ==
    IF IntOf(PriorityCandidate(prio, action)) < IntOf(prio)
    THEN PriorityCandidate(prio, action)
    ELSE prio

\* Mutant: break is taken whatever the mode.
Mut_StopsAfterApply(mode) == TRUE

\* Line 207.
StopsAfterApply(mode) == mode = sFirstMatch

\* Lines 186-210 as a function of the rule list, on the instance and the
\* arguments of the current state: the loop from position i with the locals
\* recs and prio, to the return statement or the exception that ends it.
RECURSIVE apply_rules_from(_, _, _, _)
apply_rules_from(rules, i, recs, prio) ==
    IF i > Len(rules)
    THEN [outcome |-> "returned", recipients |-> recs, priority |-> prio]
    ELSE LET action == Get(rules[i], "action", EmptyDict)
             merged == CHOOSE o \in Orderings(MergeRecipients(recs, action)) : TRUE
         IN  IF ~RuleMatches(rules[i], target_name, target_type, lifecycle_status)
             THEN apply_rules_from(rules, i + 1, recs, prio)
             ELSE IF MinRaises(prio, action)
             THEN [outcome |-> "ValueError", recipients |-> merged, priority |-> prio]
             ELSE IF ~loggerBound
             THEN [outcome |-> "AttributeError", recipients |-> merged,
                   priority |-> MinPriority(prio, action)]
             ELSE IF StopsAfterApply(rules_evaluation)
             THEN [outcome |-> "returned", recipients |-> merged,
                   priority |-> MinPriority(prio, action)]
             ELSE apply_rules_from(rules, i + 1, merged, MinPriority(prio, action))

\* Lines 178-210: apply_rules on the rule list given.
apply_rules(rules) == apply_rules_from(rules, 1, <<smtp_recipient>>, p3)

\* ------------------------------------------------------------------ send_notification

\* Lines 244-246.
Headers(recs, prio) ==
    [h \in {"To", "X-Priority", "Importance", "Priority"} |->
        CASE h = "To" -> recs
          [] h = "X-Priority" -> prio
          [] h = "Importance" -> IF prio = p1 THEN <<"High">> ELSE <<"Normal">>
          [] h = "Priority" -> IF prio = p1 THEN <<"urgent">> ELSE <<"normal">>]

\* ------------------------------------------------------------------ actions

\* Lines 258-261: the script constructs the notifier.
Main ==
    /\ pc = "start"
    /\ entry' = "main"
    /\ pc' = "load_yaml_config"
    /\ UNCHANGED <<loggerBound, configSource, exc, objVars, eventVars, loopVars, outVars>>

\* Lines 50-59 and 98-111: __init__ loads the configuration file.
LoadYamlConfig ==
    /\ pc = "load_yaml_config"
    /\ \E file \in ConfigFiles :
        /\ configSource' = IF ~file.exists THEN "missing"
                           ELSE IF ~file.is_dict THEN "not_mapping"
                           ELSE "mapping"
        /\ IF load_yaml_config(file) # ""
           THEN Raise(load_yaml_config(file)) /\ UNCHANGED config
           ELSE config' = file.content /\ pc' = "init_settings" /\ UNCHANGED exc
    /\ UNCHANGED <<entry, loggerBound, smtp_recipient, smtp_port, rules_evaluation,
                   eventVars, loopVars, outVars>>

\* Lines 63-76: __init__ reads the settings; int() of the port may raise.
InitSettings ==
    /\ pc = "init_settings"
    /\ LET smtp_config == Get(config, "smtp", EmptyDict)
           port == Get(smtp_config, "port", p25)
       IN  IF ~IntParses(port)
           THEN Raise("ValueError")
                /\ UNCHANGED <<smtp_recipient, smtp_port, rules_evaluation>>
           ELSE /\ smtp_port' = IntOf(port)
                /\ smtp_recipient' = Get(smtp_config, "recipient", None)
                /\ rules_evaluation' = lower(Get(config, "rules_evaluation", sAllMatches))
                /\ pc' = "init_logging"
                /\ UNCHANGED exc
    /\ UNCHANGED <<entry, loggerBound, configSource, config, eventVars, loopVars, outVars>>

\* Lines 78-82: __init__ ends with self.logger.debug(...); on success the
\* script goes on to send_notification (line 262).
InitLogging ==
    /\ pc = "init_logging"
    /\ IF loggerBound
       THEN pc' = "get_event_details" /\ UNCHANGED exc
       ELSE Raise("AttributeError")
    /\ UNCHANGED <<entry, loggerBound, configSource, objVars, eventVars, loopVars, outVars>>

\* Lines 157-176 (called at line 217): the event fields, with their defaults.
GetEventDetails ==
    /\ pc = "get_event_details"
    /\ IF loggerBound
       THEN /\ \E event_details \in Environments :
                /\ target_name' = Get(event_details, "TARGET_NAME", sUnknownTarget)
                /\ target_type' = Get(event_details, "TARGET_TYPE", sUnknownType)
                /\ lifecycle_status' =
                       Get(event_details, "LIFECYCLE_STATUS", sUnknownStatus)
            /\ pc' = "apply_rules"
            /\ UNCHANGED exc
       ELSE Raise("AttributeError") /\ UNCHANGED eventVars
    /\ UNCHANGED <<entry, loggerBound, configSource, objVars, loopVars, outVars>>

\* apply_rules applied as a function: the instance attributes are the values
\* lines 59-76 compute from a configuration mapping, the arguments the values
\* get_event_details returns.
CallApplyRules ==
    /\ pc = "start"
    /\ entry' = "apply_rules"
    /\ \E content \in ConfigContents, event_details \in Environments :
        /\ IntParses(Get(Get(content, "smtp", EmptyDict), "port", p25))
        /\ smtp_port' = IntOf(Get(Get(content, "smtp", EmptyDict), "port", p25))
        /\ config' = content
        /\ smtp_recipient' = Get(Get(content, "smtp", EmptyDict), "recipient", None)
        /\ rules_evaluation' = lower(Get(content, "rules_evaluation", sAllMatches))
        /\ target_name' = Get(event_details, "TARGET_NAME", sUnknownTarget)
        /\ target_type' = Get(event_details, "TARGET_TYPE", sUnknownType)
        /\ lifecycle_status' = Get(event_details, "LIFECYCLE_STATUS", sUnknownStatus)
    /\ pc' = "apply_rules"
    /\ UNCHANGED <<loggerBound, configSource, exc, loopVars, outVars>>

\* Lines 183-184.
ApplyRulesBegin ==
    /\ pc = "apply_rules"
    /\ recipients' = <<smtp_recipient>>
    /\ priority' = p3
    /\ idx' = 1
    /\ pc' = "apply_rules_loop"
    /\ UNCHANGED <<entry, loggerBound, configSource, exc, objVars, eventVars, applied, returned,
                   outVars>>

\* Lines 186-208: one iteration of the for loop.
ApplyRulesIter ==
    /\ pc = "apply_rules_loop"
    /\ idx <= Len(Rules)
    /\ LET rule == Rules[idx]
           action == Get(rule, "action", EmptyDict)
       IN  IF ~RuleMatches(rule, target_name, target_type, lifecycle_status)
           THEN /\ idx' = idx + 1
                /\ UNCHANGED <<pc, exc, recipients, priority, applied>>
           ELSE /\ applied' = Append(applied, idx)
                /\ recipients' \in Orderings(MergeRecipients(recipients, action))
                /\ IF MinRaises(priority, action)
                   THEN Raise("ValueError") /\ UNCHANGED <<priority, idx>>
                   ELSE /\ priority' = MinPriority(priority, action)
                        /\ IF ~loggerBound
                           THEN Raise("AttributeError") /\ UNCHANGED idx
                           ELSE IF StopsAfterApply(rules_evaluation)
                           THEN pc' = "apply_rules_break" /\ UNCHANGED <<exc, idx>>
                           ELSE idx' = idx + 1 /\ UNCHANGED <<pc, exc>>
    /\ UNCHANGED <<entry, loggerBound, configSource, objVars, eventVars, returned, outVars>>

\* Line 210: the loop is exhausted or was left by break.
ApplyRulesReturn ==
    /\ \/ pc = "apply_rules_loop" /\ idx > Len(Rules)
       \/ pc = "apply_rules_break"
    /\ returned' = TRUE
    /\ pc' = IF entry = "main" THEN "build_message" ELSE "done"
    /\ UNCHANGED <<entry, loggerBound, configSource, exc, objVars, eventVars, idx, recipients,
                   priority, applied, outVars>>

\* Lines 239-246: ", ".join(recipients) raises TypeError on None.
BuildMessage ==
    /\ pc = "build_message"
    /\ IF None \in ToSet(recipients)
       THEN Raise("TypeError") /\ UNCHANGED msg
       ELSE msg' = Headers(recipients, priority) /\ pc' = "send" /\ UNCHANGED exc
    /\ UNCHANGED <<entry, loggerBound, configSource, objVars, eventVars, loopVars, sendAttempts,
                   sendFailed, log, exitCode>>

\* Mutant: the transport's exception is not caught in send_notification.
Mut_Send ==
    /\ pc = "send"
    /\ sendAttempts' = sendAttempts + 1
    /\ IF ~loggerBound
       THEN Raise("AttributeError") /\ UNCHANGED <<sendFailed, log>>
       ELSE \E delivered \in BOOLEAN :
            /\ sendFailed' = ~delivered
            /\ IF delivered
               THEN /\ log' = log \cup {"info: email sent"}
                    /\ pc' = "main_return"
                    /\ UNCHANGED exc
               ELSE Raise("SMTPException") /\ UNCHANGED log
    /\ UNCHANGED <<entry, loggerBound, configSource, objVars, eventVars, loopVars, msg, exitCode>>

\* Lines 248-255: one pass through the try block; a transport failure is
\* caught and logged there, and send_notification returns.
Send ==
    /\ pc = "send"
    /\ sendAttempts' = sendAttempts + 1
    /\ IF ~loggerBound
       THEN Raise("AttributeError") /\ UNCHANGED <<sendFailed, log>>
       ELSE \E delivered \in BOOLEAN :
            /\ sendFailed' = ~delivered
            /\ log' = log \cup {IF delivered THEN "info: email sent"
                                ELSE "error: sending email"}
            /\ pc' = "main_return"
            /\ UNCHANGED exc
    /\ UNCHANGED <<entry, loggerBound, configSource, objVars, eventVars, loopVars, msg, exitCode>>

\* Line 262 returned: the script ends.
MainReturn ==
    /\ pc = "main_return"
    /\ exitCode' = 0
    /\ pc' = "exit"
    /\ UNCHANGED <<entry, loggerBound, configSource, exc, objVars, eventVars, loopVars, msg,
                   sendAttempts, sendFailed, log>>

\* Lines 263-264: the script logs the exception and ends.
MainExcept ==
    /\ pc = "main_except"
    /\ log' = log \cup {"error: critical"}
    /\ exitCode' = 0
    /\ pc' = "exit"
    /\ UNCHANGED <<entry, loggerBound, configSource, exc, objVars, eventVars, loopVars, msg,
                   sendAttempts, sendFailed>>

Next ==
    \/ Main
    \/ LoadYamlConfig
    \/ InitSettings
    \/ InitLogging
    \/ GetEventDetails
    \/ CallApplyRules
    \/ ApplyRulesBegin
    \/ ApplyRulesIter
    \/ ApplyRulesReturn
    \/ BuildMessage
    \/ Send
    \/ MainReturn
    \/ MainExcept

Spec == Init /\ [][Next]_vars

\* ------------------------------------------------------------------ vocabulary of the claims

ConditionOf(i) == Get(Rules[i], "condition", EmptyDict)
ActionOf(i) == Get(Rules[i], "action", EmptyDict)
AppliedSet == ToSet(applied)

\* The positions whose conditions the loop has evaluated.
Evaluated == {i \in 1..Len(Rules) : i < idx \/ i \in AppliedSet}

\* The applied positions whose line 202 has completed.
Folded ==
    IF exc = "ValueError" /\ applied # <<>>
    THEN ToSet(SubSeq(applied, 1, Len(applied) - 1))
    ELSE AppliedSet

SetMin(S) == CHOOSE x \in S : \A y \in S : x <= y

InApplyRules == pc \in {"apply_rules_loop", "apply_rules_break"}

\* ------------------------------------------------------------------ C4

C4_Text(i, key) == lower(Get(ConditionOf(i), key, sEmpty))

C4_Applies(i) ==
    /\ C4_Text(i, "target_name") = sAll \/ C4_Text(i, "target_name") = lower(target_name)
    /\ C4_Text(i, "target_type") = sAll \/ C4_Text(i, "target_type") = lower(target_type)
    /\ C4_Text(i, "lifecycle_status") = sEmpty
       \/ C4_Text(i, "lifecycle_status") = lower(lifecycle_status)

\* C4: a rule the loop has evaluated was applied iff, case-insensitively and
\* with an absent key read as "", its target_name is "all" or the input's, its
\* target_type is "all" or the input's, and its lifecycle_status is empty or
\* the input's.  Hence a rule without target_name (target_type) is applied only
\* to an empty input name (type), a rule without lifecycle_status is applied
\* whatever the lifecycle_status when the other two match, and an "all"/"all"
\* rule without lifecycle_status is applied to every input.
C4_RuleAppliesIff ==
    /\ \A i \in Evaluated : (i \in AppliedSet) <=> C4_Applies(i)
    /\ \A i \in AppliedSet :
        /\ "target_name" \notin DOMAIN ConditionOf(i) => target_name = sEmpty
        /\ "target_type" \notin DOMAIN ConditionOf(i) => target_type = sEmpty
    /\ \A i \in Evaluated :
        /\ "lifecycle_status" \notin DOMAIN ConditionOf(i)
        /\ C4_Text(i, "target_name") \in {sAll, lower(target_name)}
        /\ C4_Text(i, "target_type") \in {sAll, lower(target_type)}
        => i \in AppliedSet
    /\ \A i \in Evaluated :
        /\ DOMAIN ConditionOf(i) = {"target_name", "target_type"}
        /\ C4_Text(i, "target_name") = sAll
        /\ C4_Text(i, "target_type") = sAll
        => i \in AppliedSet

\* C4 witness: a rule naming "DB" was applied to the input "Db", after a rule
\* without target_name was passed over for that non-empty name.
C4_Witness ==
    /\ \E i \in AppliedSet :
        /\ Get(ConditionOf(i), "target_name", sEmpty) = sDB
        /\ target_name = sDb
    /\ \E j \in Evaluated \ AppliedSet :
        /\ "target_name" \notin DOMAIN ConditionOf(j)
        /\ "lifecycle_status" \notin DOMAIN ConditionOf(j)

\* ------------------------------------------------------------------ C3

C3_Min ==
    SetMin({3} \cup {IntOf(ActionOf(i).priority) :
                        i \in {j \in Folded : "priority" \in DOMAIN ActionOf(j)}})

C3_Inv ==
    priority # sEmpty => IntParses(priority) /\ IntOf(priority) = C3_Min

C3_Step ==
    priority # sEmpty =>
        /\ IntOf(priority') <= IntOf(priority)
        /\ applied' # applied /\ "priority" \notin DOMAIN ActionOf(applied'[Len(applied')])
           => priority' = priority

\* C3: in apply_rules the running priority never increases numerically from
\* one step to the next, it is always the numeric minimum of 3 and the
\* priorities of the rules applied so far (so the returned one is that of all
\* applied rules), and applying a rule whose action has no priority leaves it
\* as it was.
C3_PriorityIsRunningMin == [](C3_Inv) /\ [][C3_Step]_vars

\* C3 witness: apply_rules returned "1" after applying a rule of priority "2"
\* and then a rule of priority "1".
C3_Witness ==
    /\ returned
    /\ Len(applied) = 2
    /\ Get(ActionOf(applied[1]), "priority", sEmpty) = p2
    /\ Get(ActionOf(applied[2]), "priority", sEmpty) = p1
    /\ priority = p1

\* ------------------------------------------------------------------ C6

C6_NonNumericApplied ==
    {i \in AppliedSet :
        /\ "priority" \in DOMAIN ActionOf(i)
        /\ ~IntParses(ActionOf(i).priority)}

\* C6: once a rule whose action priority is not numeric has been applied, the
\* evaluation has ended in ValueError without returning, the run is over or
\* in the script's handler (which logs the error), no message was built and no
\* send was attempted.
C6_MalformedPriorityIsFatal ==
    C6_NonNumericApplied # {} =>
        /\ exc = "ValueError"
        /\ ~returned
        /\ msg = EmptyDict
        /\ sendAttempts = 0
        /\ pc \in {"main_except", "exit", "done"}
        /\ pc = "exit" => "error: critical" \in log

\* C6 witness: a run of the script ended after applying a rule with a
\* non-numeric priority.
C6_Witness ==
    /\ entry = "main"
    /\ pc = "exit"
    /\ C6_NonNumericApplied # {}

\* ------------------------------------------------------------------ C8

\* C8: at most one send is attempted; a send is attempted only after the
\* configuration was loaded as a mapping and apply_rules returned, having
\* walked the whole rule list (or, in first_match mode, having stopped at an
\* applied rule); a missing or non-mapping configuration source ends the run
\* in the script's handler before any rule is evaluated and before any send.
C8_SendOnlyAfterEvaluation ==
    /\ sendAttempts <= 1
    /\ sendAttempts = 1 =>
        /\ configSource = "mapping"
        /\ returned
        /\ \/ idx = Len(Rules) + 1
           \/ StopsAfterApply(rules_evaluation) /\ applied # <<>>
    /\ configSource \in {"missing", "not_mapping"} =>
        /\ pc \in {"main_except", "exit"}
        /\ exc \in {"FileNotFoundError", "ValueError"}
        /\ idx = 0
        /\ applied = <<>>
        /\ ~returned
        /\ msg = EmptyDict
        /\ sendAttempts = 0

\* C8 witness: a run ended after its one send, made after a rule was applied.
C8_Witness ==
    /\ pc = "exit"
    /\ sendAttempts = 1
    /\ applied # <<>>

\* ------------------------------------------------------------------ C7

WellFormedSmtp ==
    LET smtp_config == Get(config, "smtp", EmptyDict)
    IN  /\ "recipient" \in DOMAIN smtp_config
        /\ IntParses(Get(smtp_config, "port", p25))

\* C9 as claimed, in the form a finished run refutes: a run of the script on a
\* configuration file that is a mapping (with a recipient and a numeric port),
\* in which no applied rule has a non-numeric priority, ends having built the
\* message and attempted exactly one send.
C9_Claim ==
    /\ entry = "main"
    /\ pc = "exit"
    /\ configSource = "mapping"
    /\ WellFormedSmtp
    /\ C6_NonNumericApplied = {}
    => returned /\ msg # EmptyDict /\ sendAttempts = 1

\* C9, given a logger attribute from outside the file: the same statement.
C9_GivenLogger == loggerBound => C9_Claim

\* ------------------------------------------------------------------ C5

C5_HeadersFollowPriority ==
    msg # EmptyDict =>
        /\ msg["X-Priority"] = priority
        /\ priority = p1 => msg["Importance"] = <<"High">> /\ msg["Priority"] = <<"urgent">>
        /\ priority # p1 => msg["Importance"] = <<"Normal">> /\ msg["Priority"] = <<"normal">>

C5_RunOver ==
    /\ entry = "main"
    /\ pc = "exit"
    /\ configSource = "mapping"
    /\ WellFormedSmtp

\* C5 as claimed: a built message carries X-Priority equal to the returned
\* priority, Importance "High" and Priority "urgent" exactly for "1", "Normal"
\* and "normal" otherwise; a run whose only rule matches everything with
\* priority "1" ends with Importance "High", and a run with no rule ends with
\* Importance "Normal".
C5_Claim ==
    /\ C5_HeadersFollowPriority
    /\ C5_RunOver /\ Rules = <<RuleAll1>> =>
          msg # EmptyDict /\ msg["Importance"] = <<"High">>
    /\ C5_RunOver /\ Rules = <<>> =>
          msg # EmptyDict /\ msg["Importance"] = <<"Normal">>

\* C5, given a logger attribute from outside the file: the same statement.
C5_GivenLogger == loggerBound => C5_Claim

\* ------------------------------------------------------------------ C1, C2, C10

\* apply_rules was entered and has ended, by return or by an exception.
EvaluationOver == idx >= 1 /\ ~InApplyRules

AllMatchesMode == rules_evaluation = sAllMatches
FirstMatchMode == rules_evaluation = sFirstMatch

\* The positions whose three conditions match the input, in the words of C4.
Matching == {i \in 1..Len(Rules) : C4_Applies(i)}

NumericOrAbsent(i) ==
    "priority" \in DOMAIN ActionOf(i) => IntParses(ActionOf(i).priority)

RecipientsOf(i) == ToSet(Get(ActionOf(i), "recipients", <<>>))

NoDuplicates(seq) == \A i, j \in DOMAIN seq : i # j => seq[i] # seq[j]

\* C1 as claimed: in all_matches mode, when no matching rule has a malformed
\* priority, apply_rules returns; the returned list holds, as a set, the base
\* recipient and the recipients of every matching rule, and no address twice.
C1_Claim ==
    /\ EvaluationOver
    /\ AllMatchesMode
    /\ \A i \in Matching : NumericOrAbsent(i)
    => /\ returned
       /\ ToSet(recipients) = {smtp_recipient} \cup UNION {RecipientsOf(i) : i \in Matching}
       /\ NoDuplicates(recipients)

\* C1, given a logger attribute from outside the file: the same statement.
C1_GivenLogger == loggerBound => C1_Claim

C2_First == IF Matching = {} THEN 0 ELSE SetMin(Matching)

C2_Resolved(i) ==
    IF "priority" \in DOMAIN ActionOf(i) /\ IntOf(ActionOf(i).priority) < 3
    THEN ActionOf(i).priority
    ELSE p3

\* C2 as claimed: in first_match mode, when the first matching rule has no
\* malformed priority, apply_rules returns; only that rule was applied, the
\* returned recipients are the base recipient and that rule's, the returned
\* priority is resolved from "3" and that rule's priority alone; when no rule
\* matches the result is the base recipient and "3".
C2_Claim ==
    /\ EvaluationOver
    /\ FirstMatchMode
    /\ C2_First # 0 => NumericOrAbsent(C2_First)
    => /\ returned
       /\ IF C2_First = 0
          THEN applied = <<>> /\ recipients = <<smtp_recipient>> /\ priority = p3
          ELSE /\ applied = <<C2_First>>
               /\ ToSet(recipients) = {smtp_recipient} \cup RecipientsOf(C2_First)
               /\ priority = C2_Resolved(C2_First)

\* C2, given a logger attribute from outside the file: the same statement.
C2_GivenLogger == loggerBound => C2_Claim

\* The rule list in every order.
Rearrangements(rules) ==
    {[i \in 1..Len(rules) |-> rules[o[i]]] : o \in Orderings(1..Len(rules))}

\* apply_rules has just returned.
C10_Case ==
    /\ returned
    /\ pc \in {"done", "build_message"}
    /\ AllMatchesMode
    /\ \A i \in 1..Len(Rules) : NumericOrAbsent(i)

StepsAgreeWithFunction ==
    EvaluationOver =>
        /\ returned <=> apply_rules(Rules).outcome = "returned"
        /\ ~returned => exc = apply_rules(Rules).outcome
        /\ ToSet(recipients) = ToSet(apply_rules(Rules).recipients)
        /\ priority = apply_rules(Rules).priority
====
